---- MODULE Spec2Model ----
(***************************************************************************)
(* Step execution engine of superglue: the strategy selector, the Direct   *)
(* and Loop execution strategies (workflow-strategies.ts) and the          *)
(* self-healing call executor executeApiCall and the call orchestrator     *)
(* callResolver (graphql/resolvers/call.ts), and the Express               *)
(* authentication middleware (auth.ts).                                    *)
(* Every await of the code is one action; the synchronous code that runs   *)
(* after an await (catch blocks, the loop test, the aggregation) belongs   *)
(* to the action of that await.  Strings are sequences of tokens.          *)
(***************************************************************************)
EXTENDS Integers, Sequences, FiniteSets, TLC

VARIABLES mode, payload, credentials, options, integration, validConfigs, input,
          step, pc, result, loop, ex, obs, sobs, call, io, req, http

(* what the strategies, the executor and callResolver leave alone: their   *)
(* arguments, and the HTTP request in the hands of the middleware          *)
inputs == <<mode, payload, credentials, options, integration, validConfigs, input,
            req, http>>
vars == <<mode, payload, credentials, options, integration, validConfigs, input,
          step, pc, result, loop, ex, obs, sobs, call, io, req, http>>

(* ---------------- bounds of the model ---------------- *)
MaxRetries == 3
MaxItems == 3
MaxIters == 3

(* ---------------- optional values (undefined / null) ---------------- *)
None == <<>>
Some(v) == <<v>>
IsSome(o) == o # <<>>
Get(o) == o[1]

Min(a, b) == IF a < b THEN a ELSE b

(* ---------------- values of the environment ---------------- *)
SECRET == "s3cr3t"
CredentialSets == {[apiKey |-> SECRET]}
OriginalConfig == "cfg0"
(* a response body is an object, an object that has a key "currentItem" of *)
(* its own, or a scalar                                                    *)
IsObject(data) == data \in {"objectBody", "objectBodyOwnItemKey"}
HasOwnItemKey(data) == data = "objectBodyOwnItemKey"
OwnItemValue == "bodyItem"
TransportErrors == {<<"HTTP 500">>, <<"HTTP 401 for key ", SECRET>>, <<"JSONata", " failed to evaluate">>}
SynthErrors == {<<"LLM unavailable">>}
ValidatorReasons == {<<"missing field">>}
ValidatorErrors == {<<"validator unavailable">>}
MappingErrors == {<<"Mapping transformation failed">>,
                  <<"Mapping transformation failed near ", SECRET>>}
RegenErrors == {<<"LLM unavailable">>}
SelfHealingModes == {"ENABLED", "REQUEST_ONLY", "DISABLED"}
Integrations == {[documentationPending |-> TRUE, documentation |-> "docs"],
                 [documentationPending |-> FALSE, documentation |-> "docs"],
                 [documentationPending |-> FALSE, documentation |-> ""]}
PROMPT_MAPPING == "<JSONata guide>"
(* configs the orchestrator can resolve: null for an identifier the store  *)
(* does not hold, and a config whose response schema is a zod object       *)
NullConfig == "null"
ZodConfig == "cfgZod"
CacheModes == {"ENABLED", "READONLY", "WRITEONLY", "DISABLED"}
StoreErrors == {<<"store unavailable">>}
TransformErrors == {<<"Transform failed">>, <<"Transform failed for key ", SECRET>>}
TransformConfigs == {None, Some("responseMapping")}

(* ---------------- collaborators ---------------- *)
(* maskCredentials(message, credentials): every credential value is replaced *)
(* by a placeholder naming its key.                                          *)
maskCredentials(message, creds) ==
  [k \in 1..Len(message) |->
     IF \E key \in DOMAIN creds : creds[key] = message[k]
     THEN "{masked_" \o (CHOOSE key \in DOMAIN creds : creds[key] = message[k]) \o "}"
     ELSE message[k]]

(* String.prototype.slice(0, n) *)
Slice(s, n) == SubSeq(s, 1, Min(Len(s), n))

(* JSON.stringify of a response body or of a loop item.  The rendering of  *)
(* item3 is LongItemLen characters long, one token per character; every    *)
(* other rendering is one token that stands for a text of a few characters *)
LongItemLen == 60
JsonStringify(data) ==
  IF data = "item3" THEN [k \in 1..LongItemLen |-> "x"] ELSE <<"json:" \o data>>

(* applyJsonata(data, expr): no expression or "$" is the identity; any other *)
(* expression yields a mapped value or fails.                                *)
applyJsonataOutcomes(data, expr) ==
  IF expr = None \/ expr = Some("$")
  THEN {[ok |-> TRUE, data |-> data, error |-> <<>>]}
  ELSE {[ok |-> TRUE, data |-> [mapped |-> data], error |-> <<>>]}
       \cup {[ok |-> FALSE, data |-> [mapped |-> data], error |-> e] : e \in MappingErrors}

(* ---------------- executeApiCall ---------------- *)
ErrorSliceLen == 1000
MessageSliceLen == 2000
DefaultRetries == 8

isSelfHealingEnabledUnsetOff(opts) ==
  IsSome(opts.selfHealing)
  /\ (Get(opts.selfHealing) = "ENABLED" \/ Get(opts.selfHealing) = "REQUEST_ONLY")

isSelfHealingEnabledAlways(opts) == TRUE

(* lines 212-214 *)
isSelfHealingEnabled(opts) ==
  IF IsSome(opts.selfHealing)
  THEN Get(opts.selfHealing) = "ENABLED" \/ Get(opts.selfHealing) = "REQUEST_ONLY"
  ELSE TRUE

Retries(opts) == IF opts.retries # None THEN Get(opts.retries) ELSE DefaultRetries

(* line 155 and line 169: the guard of regeneration and of validation *)
HealingAttemptAlways(retryCount, isSelfHealing) == isSelfHealing

HealingAttemptAnyMode(retryCount, isSelfHealing) == retryCount > 0

HealingAttempt(retryCount, isSelfHealing) == retryCount > 0 /\ isSelfHealing

AttemptEntry(retryCount, isSelfHealing) ==
  IF HealingAttempt(retryCount, isSelfHealing) THEN "generateApiConfig" ELSE "callEndpoint"

IdleExec ==
  [pc |-> "idle", endpoint |-> OriginalConfig, payload |-> None, options |-> None,
   retryCount |-> 0, lastError |-> None, messages |-> <<>>, success |-> FALSE,
   response |-> None, isSelfHealing |-> FALSE, documentationString |-> "",
   thrown |-> <<>>, rawErrorString |-> <<>>]

IdleObs ==
  [argConfig |-> None, nTransport |-> 0, nSynth |-> 0, nValidate |-> 0,
   synthAttempts |-> {}, call0Config |-> None, lastCallConfig |-> None,
   lastSynth |-> None, maxAttempt |-> 0, validateAttempts |-> {},
   emptyAttempts |-> {}, rejectedAttempts |-> {}, synthReturned |-> None]

(* lines 138-152: the locals and the documentation string.  Reading         *)
(* integration.documentation of an absent integration is a TypeError, which *)
(* is thrown outside the try block of the retry loop.                       *)
DocumentationThrows(isSelfHealing, integ) ==
  ~(integ = None /\ isSelfHealing) /\ integ = None

DocumentationString(isSelfHealing, integ) ==
  IF integ = None /\ isSelfHealing THEN ""
  ELSE IF integ # None /\ Get(integ).documentationPending THEN ""
  ELSE IF Get(integ).documentation # "" THEN Get(integ).documentation
  ELSE ""

executeApiCallEntry(endpoint, pl, opts, integ) ==
  LET sh == isSelfHealingEnabled(opts) IN
  IF DocumentationThrows(sh, integ)
  THEN [IdleExec EXCEPT !.pc = "threw", !.endpoint = endpoint, !.payload = Some(pl),
                        !.options = Some(opts), !.isSelfHealing = sh,
                        !.thrown = <<"Cannot read properties of undefined (reading 'documentation')">>]
  ELSE [IdleExec EXCEPT !.pc = AttemptEntry(0, sh), !.endpoint = endpoint,
                        !.payload = Some(pl), !.options = Some(opts),
                        !.isSelfHealing = sh,
                        !.documentationString = DocumentationString(sh, integ)]

ObsEntry(endpoint) ==
  [IdleObs EXCEPT !.argConfig = Some(endpoint)]

(* line 187 *)
RawErrorString(error) == IF error # <<>> THEN error ELSE <<"{}">>

HasGuideNever(messages) == FALSE

(* lines 193-196: the messages appended after a failed attempt > 0 *)
HasGuide(messages) ==
  \E k \in 1..Len(messages) :
     Head(messages[k].content) = "Please find the JSONata guide here: "

FailureMessagesNone(messages, rawErrorString) == messages

FailureMessagesReset(messages, rawErrorString) ==
  <<[role |-> "user",
     content |-> <<"There was an error with the configuration, please fix: ">>
                 \o Slice(rawErrorString, MessageSliceLen)]>>

FailureMessages(messages, rawErrorString) ==
  LET withError == Append(messages,
         [role |-> "user",
          content |-> <<"There was an error with the configuration, please fix: ">>
                      \o Slice(rawErrorString, MessageSliceLen)])
  IN IF Head(rawErrorString) = "JSONata" /\ ~HasGuide(withError)
     THEN Append(withError, [role |-> "user",
                             content |-> <<"Please find the JSONata guide here: ", PROMPT_MAPPING>>])
     ELSE withError

(* lines 202-208 *)
ExhaustedError(retryCount, lastError) ==
  <<"API call failed after ", ToString(retryCount), " retries. Last error: ">>
  \o (IF IsSome(lastError) THEN Get(lastError) ELSE <<"null">>)

LoopTestDoWhileOff(retryCount, opts) == retryCount <= Retries(opts)

(* line 201: the test of the do-while loop *)
LoopTest(retryCount, opts) == retryCount < Retries(opts)

LastErrorUnmasked(rawErrorString, creds) == Slice(rawErrorString, ErrorSliceLen)

(* line 188 *)
LastError(rawErrorString, creds) ==
  Slice(maskCredentials(rawErrorString, creds), ErrorSliceLen)

(* lines 186-208: the catch block, retryCount++, the loop test and, when   *)
(* the loop ends, the exhaustion error.                                     *)
ExecCatch(e, error) ==
  LET rawErrorString == RawErrorString(error)
      lastError == LastError(rawErrorString, credentials)
      messages == IF e.retryCount = 0 THEN e.messages
                  ELSE FailureMessages(e.messages, rawErrorString)
      retryCount == e.retryCount + 1
  IN IF LoopTest(retryCount, Get(e.options))
     THEN [e EXCEPT !.pc = AttemptEntry(retryCount, e.isSelfHealing),
                    !.lastError = Some(lastError), !.messages = messages,
                    !.retryCount = retryCount, !.success = FALSE,
                    !.rawErrorString = rawErrorString]
     ELSE [e EXCEPT !.pc = "threw",
                    !.lastError = Some(lastError), !.messages = messages,
                    !.retryCount = retryCount, !.success = FALSE,
                    !.rawErrorString = rawErrorString,
                    !.thrown = ExhaustedError(retryCount, Some(lastError))]

(* lines 155-160: the synthesizer; it returns a config that differs from   *)
(* the one it was given and the transcript extended by its own exchange,   *)
(* or fails.                                                                *)
generateApiConfig(endpoint) == endpoint \o "+"

SynthMessages(messages, config) ==
  Append(messages, [role |-> "assistant", content |-> <<"config: ", config>>])

KeepEndpoint(e, config) == e.endpoint

NewEndpoint(e, config) == config

GenerateApiConfig ==
  /\ ex.pc = "generateApiConfig"
  /\ \/ LET config == generateApiConfig(ex.endpoint) IN
          /\ ex' = [ex EXCEPT !.pc = "callEndpoint",
                              !.endpoint = NewEndpoint(ex, config),
                              !.messages = SynthMessages(ex.messages, config)]
          /\ obs' = [obs EXCEPT !.nSynth = @ + 1,
                                !.synthAttempts = @ \cup {ex.retryCount},
                                !.lastSynth = Some([attempt |-> ex.retryCount, config |-> config]),
                                !.synthReturned = Some(SynthMessages(ex.messages, config))]
     \/ \E error \in SynthErrors :
          /\ ex' = ExecCatch(ex, error)
          /\ obs' = [obs EXCEPT !.nSynth = @ + 1,
                                !.synthAttempts = @ \cup {ex.retryCount}]
  /\ UNCHANGED <<inputs, call, io, step, pc, result, loop, sobs>>

(* lines 162-185: the transport call; a config in validConfigs always gets *)
(* a non-empty body, any other config gets a body, no body, or an error,   *)
(* and a null config never gets a body.                                    *)
(* The body is the one the API holds for the request payload.              *)
callEndpointData(pl) ==
  IF IsSome(pl.currentItem)
  THEN CASE Get(pl.currentItem) = "item1" -> "objectBody"
         [] Get(pl.currentItem) = "item3" -> "objectBodyOwnItemKey"
         [] OTHER -> "scalarBody"
  ELSE IF pl.outer.kind = "object" THEN "objectBody" ELSE "scalarBody"

NoDataAccepted(e) == [e EXCEPT !.pc = "returned", !.response = None, !.success = TRUE]

(* lines 164-166: a response without data is a failure of the attempt *)
NoData(e) ==
  ExecCatch([e EXCEPT !.response = None],
            <<"No data returned from API. This could be due to a configuration error.">>)

ObsCall ==
  [obs EXCEPT !.nTransport = @ + 1,
              !.lastCallConfig = Some(ex.endpoint),
              !.call0Config = IF ex.retryCount = 0 THEN Some(ex.endpoint) ELSE @,
              !.maxAttempt = ex.retryCount + 1]

CallEndpoint ==
  /\ ex.pc = "callEndpoint"
  /\ \/ LET data == callEndpointData(Get(ex.payload)) IN
          /\ ex.endpoint # NullConfig
          /\ ex' = IF HealingAttempt(ex.retryCount, ex.isSelfHealing)
                   THEN [ex EXCEPT !.pc = "evaluateResponse", !.response = Some(data)]
                   ELSE [ex EXCEPT !.pc = "returned", !.response = Some(data),
                                   !.success = TRUE]
          /\ obs' = ObsCall
     \/ /\ ex.endpoint \notin validConfigs
        /\ ex' = NoData(ex)
        /\ obs' = [ObsCall EXCEPT !.emptyAttempts = @ \cup {ex.retryCount}]
     \/ /\ ex.endpoint \notin validConfigs
        /\ \E error \in TransportErrors : ex' = ExecCatch(ex, error)
        /\ obs' = ObsCall
  /\ UNCHANGED <<inputs, call, io, step, pc, result, loop, sobs>>

(* lines 169-172: the validator accepts, rejects with a reason, or fails *)
EvaluateResponse ==
  /\ ex.pc = "evaluateResponse"
  /\ \/ /\ ex' = [ex EXCEPT !.pc = "returned", !.success = TRUE]
        /\ obs' = [obs EXCEPT !.nValidate = @ + 1,
                              !.validateAttempts = @ \cup {ex.retryCount}]
     \/ \E shortReason \in ValidatorReasons :
          /\ ex' = ExecCatch(ex, shortReason \o <<" ">>
                                 \o Slice(JsonStringify(Get(ex.response)), ErrorSliceLen))
          /\ obs' = [obs EXCEPT !.nValidate = @ + 1,
                                !.validateAttempts = @ \cup {ex.retryCount},
                                !.rejectedAttempts = @ \cup {ex.retryCount}]
     \/ \E error \in ValidatorErrors :
          /\ ex' = ExecCatch(ex, error)
          /\ obs' = [obs EXCEPT !.nValidate = @ + 1,
                                !.validateAttempts = @ \cup {ex.retryCount}]
  /\ UNCHANGED <<inputs, call, io, step, pc, result, loop, sobs>>

ExecDoneNoAwait == TRUE

ExecDoneNever == FALSE

(* lines 43 and 151 of workflow-strategies.ts, line 251: the caller awaits *)
(* the executor                                                            *)
ExecDone == ex.pc \in {"returned", "threw"}

(* ---------------- selectStrategy ---------------- *)
selectStrategy(s) == IF s.executionMode = "LOOP" THEN "loopStrategy" ELSE "directStrategy"

(* ---------------- directStrategy ---------------- *)
InitialResult(s) ==
  [success |-> FALSE, config |-> s.apiConfig, rawData |-> None,
   transformedData |-> None, error |-> None, propagated |-> FALSE]

(* lines 59-65 *)
DirectCatch(res, error) ==
  [res EXCEPT !.error = Some(<<"Error in direct execution for step ", "stepId", ": ", "Error: ">> \o error),
              !.success = FALSE]

DirectStart ==
  /\ pc = "start"
  /\ selectStrategy(step) = "directStrategy"
  /\ result' = InitialResult(step)
  /\ ex' = executeApiCallEntry(step.apiConfig, [outer |-> payload, currentItem |-> None],
                                options, integration)
  /\ obs' = ObsEntry(step.apiConfig)
  /\ sobs' = [sobs EXCEPT !.nExec = @ + 1]
  /\ pc' = "direct_executeApiCall"
  /\ UNCHANGED <<inputs, call, io, step, loop>>

DirectAfterCall ==
  /\ pc = "direct_executeApiCall"
  /\ ExecDone
  /\ IF ex.pc = "threw"
     THEN /\ result' = DirectCatch(result, ex.thrown)
          /\ sobs' = [sobs EXCEPT !.failure = "executor"]
          /\ pc' = "done"
     ELSE /\ result' = result
          /\ sobs' = sobs
          /\ pc' = "direct_applyJsonata"
  /\ UNCHANGED <<inputs, call, io, step, loop, ex, obs>>

(* lines 51-58 *)
DirectSuccess(res, data, transformedData, endpoint) ==
  [res EXCEPT !.rawData = Some(data), !.transformedData = Some(transformedData),
              !.success = TRUE, !.config = endpoint]

DirectApplyJsonata ==
  /\ pc = "direct_applyJsonata"
  /\ \E out \in applyJsonataOutcomes(Get(ex.response), step.responseMapping) :
        /\ result' = IF out.ok
                     THEN DirectSuccess(result, Get(ex.response), out.data, ex.endpoint)
                     ELSE DirectCatch(result, out.error)
        /\ sobs' = IF out.ok THEN sobs ELSE [sobs EXCEPT !.failure = "mapping"]
  /\ pc' = "done"
  /\ UNCHANGED <<inputs, call, io, step, loop, ex, obs>>

(* ---------------- loopStrategy ---------------- *)
DEFAULT_LOOP_MAX_ITERS == 2
ItemSliceLen == 50

(* the payload is an array of items, or an object whose key "items" holds *)
(* the array; item k of a payload is "item<k>" or the falsy number 0      *)
Item(k) == "item" \o ToString(k)
FalsyItem == "0"
EmptyString == "\"\""
ItemLists == {[k \in 1..n |-> IF k = 2 THEN FalsyItem ELSE Item(k)] : n \in 0..MaxItems}
Payloads == [kind : {"array", "object"}, items : ItemLists]
IsArrayPayload(pl) == pl.kind = "array"

(* transformAndValidateSchema(payload, selector, null) *)
GeneratedSelectors == {"(sourceData) => sourceData.items", "(sourceData) => []",
                       "(sourceData) => sourceData.missing.items"}
transformAndValidateSchema(pl, selector) ==
  CASE selector = "$" ->
         [success |-> TRUE, isArray |-> IsArrayPayload(pl),
          data |-> IF IsArrayPayload(pl) THEN pl.items ELSE <<>>]
    [] selector = "items" ->
         [success |-> TRUE, isArray |-> ~IsArrayPayload(pl),
          data |-> IF IsArrayPayload(pl) THEN <<>> ELSE pl.items]
    [] selector = "(sourceData) => sourceData.items" ->
         [success |-> TRUE, isArray |-> TRUE, data |-> pl.items]
    [] selector = "(sourceData) => []" ->
         [success |-> TRUE, isArray |-> TRUE, data |-> <<>>]
    [] OTHER -> [success |-> FALSE, isArray |-> FALSE, data |-> <<>>]

(* lines 98-100 and 129-131 *)
ItemsOf(selectorResult, previous) ==
  IF selectorResult.success
  THEN IF selectorResult.isArray THEN selectorResult.data ELSE <<>>
  ELSE previous

NoCap(items, s) == items

(* line 135 *)
Truncate(items, s) ==
  LET cap == IF s.loopMaxIters # None /\ Get(s.loopMaxIters) # 0
             THEN Get(s.loopMaxIters) ELSE DEFAULT_LOOP_MAX_ITERS
  IN SubSeq(items, 1, Min(Len(items), cap))

(* line 141 *)
CurrentItem(item) == IF item = FalsyItem \/ item = EmptyString THEN EmptyString ELSE item

(* lines 144-148 *)
LoopPayload(pl, currentItem) == [outer |-> pl, currentItem |-> Some(currentItem)]

LoopOptionsKeep(opts) == opts

(* lines 155-158 *)
LoopOptions(opts) == [opts EXCEPT !.testMode = FALSE]

(* line 171: the keys of an object body are spread after the key           *)
(* currentItem, so a key currentItem of the body replaces the item          *)
RawData(currentItem, data) ==
  [currentItem |-> IF HasOwnItemKey(data) THEN OwnItemValue ELSE currentItem,
   body |-> data, wrapped |-> ~IsObject(data)]

ItemErrorNoSlice(i, n, currentItem, callError) ==
  <<"Error processing item ", ToString(i), "/", ToString(n), " '">>
  \o JsonStringify(currentItem) \o <<"...': ", "Error: ">> \o callError

(* lines 186-188 *)
ItemError(i, n, currentItem, callError) ==
  <<"Error processing item ", ToString(i), "/", ToString(n), " '">>
  \o Slice(JsonStringify(currentItem), ItemSliceLen) \o <<"...': ", "Error: ">> \o callError

LoopRethrow(res, s, error) == [res EXCEPT !.propagated = TRUE]

LoopCatchPartial(res, s, error) ==
  [res EXCEPT !.config = s.apiConfig, !.success = FALSE, !.error = Some(error),
              !.rawData = Some([k \in 1..Len(loop.stepResults) |-> loop.stepResults[k].rawData]),
              !.transformedData = Some([k \in 1..Len(loop.stepResults) |-> loop.stepResults[k].transformedData])]

LoopCatchSwallow(res, s, error) ==
  [res EXCEPT !.config = s.apiConfig, !.success = TRUE, !.rawData = Some(<<>>),
              !.transformedData = Some(<<>>), !.error = Some(<<>>)]

LoopCatchKeepConfig(res, s, error) ==
  [res EXCEPT !.success = FALSE, !.error = Some(error)]

(* lines 197-201 *)
LoopCatch(res, s, error) ==
  [res EXCEPT !.config = s.apiConfig, !.success = FALSE,
              !.error = Some(error)]

AggregateNoTransformed(res, s, stepResults) ==
  [res EXCEPT !.config = s.apiConfig,
              !.rawData = Some([k \in 1..Len(stepResults) |-> stepResults[k].rawData]),
              !.success = \A k \in 1..Len(stepResults) : stepResults[k].success,
              !.error = Some(<<>>)]

AggregateEmptyFails(res, s, stepResults) ==
  [res EXCEPT !.config = s.apiConfig,
              !.rawData = Some([k \in 1..Len(stepResults) |-> stepResults[k].rawData]),
              !.transformedData = Some([k \in 1..Len(stepResults) |-> stepResults[k].transformedData]),
              !.success = Len(stepResults) > 0 /\ \A k \in 1..Len(stepResults) : stepResults[k].success,
              !.error = Some(<<>>)]

AggregateStaleConfig(res, s, stepResults) ==
  [res EXCEPT !.rawData = Some([k \in 1..Len(stepResults) |-> stepResults[k].rawData]),
              !.transformedData = Some([k \in 1..Len(stepResults) |-> stepResults[k].transformedData]),
              !.success = \A k \in 1..Len(stepResults) : stepResults[k].success,
              !.error = Some(<<>>)]

(* lines 192-196 *)
Aggregate(res, s, stepResults) ==
  [res EXCEPT !.config = s.apiConfig,
              !.rawData = Some([k \in 1..Len(stepResults) |-> stepResults[k].rawData]),
              !.transformedData = Some([k \in 1..Len(stepResults) |-> stepResults[k].transformedData]),
              !.success = \A k \in 1..Len(stepResults) : stepResults[k].success,
              !.error = Some(<<>>)]

(* lines 140-161 and 192-196: the head of the for loop; with an item left *)
(* the executor is invoked for it, otherwise the results are aggregated   *)
LoopHead(lp, s, so) ==
  IF lp.i < Len(lp.loopItems)
  THEN LET currentItem == CurrentItem(lp.loopItems[lp.i + 1])
           endpoint == IF IsSome(lp.successfulConfig) THEN Get(lp.successfulConfig)
                       ELSE s.apiConfig
       IN /\ ex' = executeApiCallEntry(endpoint, LoopPayload(payload, currentItem),
                                       LoopOptions(options), integration)
          /\ obs' = ObsEntry(endpoint)
          /\ sobs' = [so EXCEPT !.nExec = @ + 1,
                                !.execItems = Append(@, currentItem),
                                !.execConfigs = Append(@, endpoint),
                                !.execOptions = Append(@, LoopOptions(options))]
          /\ pc' = "loop_executeApiCall"
          /\ result' = result
  ELSE /\ result' = Aggregate(result, s, lp.stepResults)
       /\ pc' = "done"
       /\ sobs' = so
       /\ UNCHANGED <<ex, obs>>

ResolveSelectorItems(s, pl) ==
  IF s.loopSelector = None THEN [s EXCEPT !.loopSelector = Some("items")] ELSE s

ResolveSelectorAndCap(s, pl) ==
  IF s.loopSelector = None
  THEN [s EXCEPT !.loopSelector = Some("$"), !.loopMaxIters = Some(DEFAULT_LOOP_MAX_ITERS)]
  ELSE s

(* lines 86-88 *)
ResolveSelector(s, pl) ==
  IF s.loopSelector = None THEN [s EXCEPT !.loopSelector = Some("$")] ELSE s

(* lines 79-92 *)
LoopStart ==
  /\ pc = "start"
  /\ selectStrategy(step) = "loopStrategy"
  /\ IF step.loopSelector = None /\ ~IsArrayPayload(payload)
     THEN /\ result' = LoopCatch(InitialResult(step), step,
                                 <<"loopSelector is required for LOOP execution mode">>)
          /\ pc' = "done"
          /\ sobs' = [sobs EXCEPT !.failure = "selector"]
          /\ UNCHANGED step
     ELSE /\ step' = ResolveSelector(step, payload)
          /\ result' = InitialResult(step)
          /\ pc' = "loop_select"
          /\ UNCHANGED sobs
  /\ UNCHANGED <<inputs, call, io, loop, ex, obs>>

(* lines 97-103 and 135: the first evaluation of the selector *)
LoopSelect ==
  /\ pc = "loop_select"
  /\ LET loopItems == ItemsOf(transformAndValidateSchema(payload, Get(step.loopSelector)), <<>>)
         so == [sobs EXCEPT !.nSelect = @ + 1, !.extracted = loopItems,
                            !.selectors = Append(@, Get(step.loopSelector))]
     IN IF Len(loopItems) = 0
        THEN /\ loop' = [loop EXCEPT !.loopItems = loopItems]
             /\ sobs' = [so EXCEPT !.firstEmpty = TRUE]
             /\ pc' = "loop_generateTransformCode"
             /\ UNCHANGED <<result, ex, obs>>
        ELSE LET lp == [loop EXCEPT !.loopItems = Truncate(loopItems, step)]
             IN /\ loop' = lp
                /\ LoopHead(lp, step, so)
  /\ UNCHANGED <<inputs, call, io, step>>

(* lines 103-133: the regeneration of the selector: a mapping, nothing, or *)
(* a failure                                                               *)
LoopGenerateTransformCode ==
  /\ pc = "loop_generateTransformCode"
  /\ LET so == [sobs EXCEPT !.nRegen = @ + 1] IN
     \/ \E mappingCode \in GeneratedSelectors :
          /\ step' = [step EXCEPT !.loopSelector = Some(mappingCode)]
          /\ pc' = "loop_retry"
          /\ sobs' = so
          /\ UNCHANGED <<result, loop, ex, obs>>
     \/ LET lp == [loop EXCEPT !.loopItems = Truncate(loop.loopItems, step)]
        IN /\ loop' = lp
           /\ LoopHead(lp, step, so)
           /\ UNCHANGED step
     \/ \E error \in RegenErrors :
          /\ result' = LoopCatch(result, step, error)
          /\ pc' = "done"
          /\ sobs' = [so EXCEPT !.failure = "regeneration"]
          /\ UNCHANGED <<step, loop, ex, obs>>
  /\ UNCHANGED <<inputs, call, io>>

(* lines 128-135: the second evaluation, with the regenerated selector *)
LoopRetry ==
  /\ pc = "loop_retry"
  /\ LET loopItems == ItemsOf(transformAndValidateSchema(payload, Get(step.loopSelector)),
                              loop.loopItems)
         lp == [loop EXCEPT !.loopItems = Truncate(loopItems, step)]
         so == [sobs EXCEPT !.nSelect = @ + 1, !.extracted = loopItems,
                            !.selectors = Append(@, Get(step.loopSelector))]
     IN /\ loop' = lp
        /\ LoopHead(lp, step, so)
  /\ UNCHANGED <<inputs, call, io, step>>

LearnedConfigFirst(lp, endpoint) ==
  IF IsSome(lp.successfulConfig) THEN lp.successfulConfig ELSE Some(endpoint)

(* lines 164-169: the config the executor returned is stored as the        *)
(* config of the following iterations                                      *)
LearnedConfig(lp, endpoint) == Some(endpoint)

(* lines 150-171 and 185-189: the executor returned or threw *)
LoopAfterCall ==
  /\ pc = "loop_executeApiCall"
  /\ ExecDone
  /\ IF ex.pc = "threw"
     THEN /\ result' = LoopCatch(result, step,
                          ItemError(loop.i + 1, Len(loop.loopItems),
                                    CurrentItem(loop.loopItems[loop.i + 1]), ex.thrown))
          /\ sobs' = [sobs EXCEPT !.failedIter = loop.i + 1, !.failure = "executor"]
          /\ pc' = "done"
          /\ UNCHANGED loop
     ELSE /\ loop' = [loop EXCEPT !.successfulConfig = LearnedConfig(loop, ex.endpoint)]
          /\ pc' = "loop_applyJsonata"
          /\ sobs' = [sobs EXCEPT !.returnedConfigs = Append(@, ex.endpoint)]
          /\ UNCHANGED result
  /\ UNCHANGED <<inputs, call, io, step, ex, obs>>

(* lines 171-190: the response mapping of one iteration *)
LoopApplyJsonata ==
  /\ pc = "loop_applyJsonata"
  /\ LET currentItem == CurrentItem(loop.loopItems[loop.i + 1])
         rawData == RawData(currentItem, Get(ex.response))
     IN \E out \in applyJsonataOutcomes(rawData, step.responseMapping) :
          IF out.ok
          THEN LET lp == [loop EXCEPT
                            !.stepResults = Append(@, [success |-> TRUE, rawData |-> rawData,
                                                       transformedData |-> out.data,
                                                       config |-> ex.endpoint]),
                            !.i = @ + 1]
                   s == [step EXCEPT !.apiConfig = ex.endpoint]
               IN /\ loop' = lp
                  /\ step' = s
                  /\ LoopHead(lp, s, sobs)
          ELSE /\ result' = LoopCatch(result, step,
                               ItemError(loop.i + 1, Len(loop.loopItems), currentItem, out.error))
               /\ sobs' = [sobs EXCEPT !.failedIter = loop.i + 1, !.failure = "mapping"]
               /\ pc' = "done"
               /\ UNCHANGED <<step, loop, ex, obs>>
  /\ UNCHANGED <<inputs, call, io>>

(* ---------------- callResolver ---------------- *)
(* lines 234-235 *)
ReadCache(opts) ==
  IF IsSome(opts.cacheMode) THEN Get(opts.cacheMode) \in {"ENABLED", "READONLY"} ELSE TRUE

WriteCacheAsRead(opts) ==
  IF IsSome(opts.cacheMode) THEN Get(opts.cacheMode) \in {"ENABLED", "READONLY"} ELSE TRUE

WriteCache(opts) ==
  IF IsSome(opts.cacheMode) THEN Get(opts.cacheMode) \in {"ENABLED", "WRITEONLY"} ELSE FALSE

IdleCall ==
  [endpoint |-> None, readCache |-> FALSE, writeCache |-> FALSE, error |-> <<>>,
   maskedError |-> <<>>, returned |-> None, failure |-> "none"]

(* what the call asked the store and the webhook notifier to do *)
IdleIo == [runs |-> <<>>, webhooks |-> <<>>, upserts |-> <<>>]

IsZodNever(endpoint) == FALSE

(* line 247 *)
IsZod(endpoint) == endpoint = ZodConfig

ZodError ==
  <<"zod is not supported for response schema. Please use json schema instead.">>

(* lines 279-286 and 294-302: the record handed to datastore.createRun *)
RunRecord(success, config, error) == [success |-> success, config |-> config, error |-> error]

MaskedErrorRaw(error, creds) == error

(* line 289 *)
MaskedError(error, creds) == maskCredentials(error, creds)

CallFailNoRun(c, i) ==
  /\ io' = i
  /\ call' = [c EXCEPT !.returned = Some([success |-> FALSE, error |-> Some(c.maskedError),
                                          config |-> c.endpoint, data |-> None])]
  /\ pc' = "call_returned"

(* lines 294-303: the result of a failed call is persisted and returned *)
CallFail(c, i) ==
  /\ io' = [i EXCEPT !.runs = Append(@, RunRecord(FALSE, c.endpoint, Some(c.maskedError)))]
  /\ call' = [c EXCEPT !.returned = Some([success |-> FALSE, error |-> Some(c.maskedError),
                                          config |-> c.endpoint, data |-> None])]
  /\ pc' = "call_returned"

(* lines 288-293: the catch block as far as its await *)
CallCatch(c, error, source) ==
  LET cc == [c EXCEPT !.error = error, !.maskedError = MaskedError(error, credentials),
                      !.failure = source]
  IN IF IsSome(options.webhookUrl)
     THEN /\ call' = cc
          /\ pc' = "call_notifyWebhook"
          /\ io' = io
     ELSE CallFail(cc, io)

(* lines 246-251: the schema check and the start of the executor, which is *)
(* given no integration                                                    *)
CallResolved(c, endpoint) ==
  LET cc == [c EXCEPT !.endpoint = Some(endpoint)] IN
  IF IsZod(endpoint)
  THEN /\ CallCatch(cc, ZodError, "schema")
       /\ UNCHANGED <<ex, obs>>
  ELSE /\ call' = cc
       /\ ex' = executeApiCallEntry(endpoint, [outer |-> payload, currentItem |-> None],
                                    options, None)
       /\ obs' = ObsEntry(endpoint)
       /\ pc' = "call_executeApiCall"
       /\ io' = io

(* lines 227-244 *)
CallStart ==
  /\ pc = "start"
  /\ mode = "CALL"
  /\ LET c == [call EXCEPT !.readCache = ReadCache(options),
                           !.writeCache = WriteCache(options)]
     IN IF IsSome(input.id)
        THEN /\ call' = c
             /\ pc' = "call_getApiConfig"
             /\ UNCHANGED <<ex, obs, io>>
        ELSE CallResolved(c, input.endpoint)
  /\ UNCHANGED <<inputs, step, result, loop, sobs>>

(* line 241: the store returns the config, null, or fails *)
getApiConfig(id) == IF id = "stored" THEN OriginalConfig ELSE NullConfig

CallGetApiConfig ==
  /\ pc = "call_getApiConfig"
  /\ \/ CallResolved(call, getApiConfig(Get(input.id)))
     \/ \E error \in StoreErrors :
          /\ CallCatch(call, error, "resolution")
          /\ UNCHANGED <<ex, obs>>
  /\ UNCHANGED <<inputs, step, result, loop, sobs>>

(* lines 251-253 and 288: the executor returned or threw *)
CallAfterCall ==
  /\ pc = "call_executeApiCall"
  /\ ExecDone
  /\ IF ex.pc = "threw"
     THEN CallCatch(call, ex.thrown, "executor")
     ELSE /\ call' = [call EXCEPT !.endpoint = Some(ex.endpoint)]
          /\ pc' = "call_executeTransform"
          /\ io' = io
  /\ UNCHANGED <<inputs, step, result, loop, ex, obs, sobs>>

(* line 268 *)
MergeConfig(endpoint, transformConfig) ==
  IF IsSome(transformConfig) THEN endpoint \o "&" \o Get(transformConfig) ELSE endpoint

NotifySuccessAlways(opts, webhooks, data, delivered) ==
  Append(webhooks, [success |-> TRUE, data |-> Some(data), error |-> None,
                    delivered |-> delivered])

(* lines 275-277: the notification of a successful call *)
NotifySuccess(opts, webhooks, data, delivered) ==
  IF IsSome(opts.webhookUrl)
  THEN Append(webhooks, [success |-> TRUE, data |-> Some(data), error |-> None,
                         delivered |-> delivered])
  ELSE webhooks

(* lines 256-287: the post-call transform; on success the config is written *)
(* back when the cache is written, the webhook is notified without being   *)
(* awaited, and the run is persisted and returned                          *)
CallExecuteTransform ==
  /\ pc = "call_executeTransform"
  /\ \/ \E transformConfig \in TransformConfigs, delivered \in BOOLEAN :
          LET data == [transformed |-> Get(ex.response)]
              config == MergeConfig(Get(call.endpoint), transformConfig)
              upserts == IF call.writeCache
                         THEN Append(io.upserts,
                                     [id |-> IF IsSome(input.id) THEN Get(input.id)
                                             ELSE "endpoint.id",
                                      config |-> config])
                         ELSE io.upserts
              webhooks == NotifySuccess(options, io.webhooks, data, delivered)
          IN /\ (options.webhookUrl = None => delivered)
             /\ io' = [io EXCEPT !.upserts = upserts, !.webhooks = webhooks,
                                 !.runs = Append(@, RunRecord(TRUE, Some(config), None))]
             /\ call' = [call EXCEPT !.returned = Some([success |-> TRUE, error |-> None,
                                                        config |-> Some(config),
                                                        data |-> Some(data)])]
             /\ pc' = "call_returned"
     \/ \E error \in TransformErrors : CallCatch(call, error, "transform")
  /\ UNCHANGED <<inputs, step, result, loop, ex, obs, sobs>>

(* lines 291-303: the awaited failure notification, which is best effort   *)
(* and gets the error message as thrown, then the persisted result         *)
CallNotifyWebhook ==
  /\ pc = "call_notifyWebhook"
  /\ \E delivered \in BOOLEAN :
        CallFail(call, [io EXCEPT !.webhooks =
                           Append(@, [success |-> FALSE, data |-> None,
                                      error |-> Some(call.error), delivered |-> delivered])])
  /\ UNCHANGED <<inputs, step, result, loop, ex, obs, sobs>>

(* ---------------- authMiddleware ---------------- *)
(* a request: its path, its Authorization header as String.split(" ")      *)
(* cuts it, and the token of its query string                              *)
IdleReq == [path |-> "/", authorization |-> None, queryToken |-> None]
Paths == {"/health", "/graphql"}
AuthorizationHeaders ==
  {None, Some(<<"Bearer", "key1">>), Some(<<"Bearer", "key2\t">>), Some(<<"Bearer">>),
   Some(<<"Bearer", "", "key1">>), Some(<<"Basic", "key1">>)}
QueryTokens == {None, Some(""), Some("key1"), Some("key2")}
OrgIds == {"org1"}
AuthErrors == {<<"key store unavailable">>}

(* what the middleware did with the response and with next(), and what it *)
(* asked of the auth manager                                               *)
IdleHttp ==
  [token |-> None, authResult |-> None, status |-> None, body |-> None,
   nextCalls |-> 0, authenticateCalls |-> <<>>, accepted |-> {}, orgId |-> None,
   authInfo |-> None, thrown |-> <<>>]

(* String.prototype.trim *)
Trim(s) == CASE s = "key2\t" -> "key2" [] s = "\t" -> "" [] OTHER -> s

(* a falsy string: undefined or the empty string *)
Falsy(token) == token = None \/ token = Some("")

(* lines 65-76: authorization?.split(" ")?.[1]?.trim() || query?.token *)
extractTokenFromExpressRequest(source) ==
  LET parts == source.authorization
      header == IF IsSome(parts) /\ Len(Get(parts)) >= 2
                THEN Some(Trim(Get(parts)[2])) ELSE None
  IN IF Falsy(header) THEN source.queryToken ELSE header

(* lines 78-94 *)
getAuthErrorHTML(token) ==
  <<"Authentication ", IF Falsy(token) THEN "Required" ELSE "Failed">>

(* lines 44-49: the health check answers at once; any other request has    *)
(* its token extracted and validated                                       *)
AuthMiddleware ==
  /\ pc = "start"
  /\ mode = "AUTH"
  /\ IF req.path = "/health"
     THEN /\ http' = [http EXCEPT !.status = Some(200), !.body = Some(<<"OK">>)]
          /\ pc' = "auth_done"
     ELSE /\ http' = [http EXCEPT !.token = extractTokenFromExpressRequest(req)]
          /\ pc' = "auth_validateToken"
  /\ UNCHANGED <<mode, payload, credentials, options, integration, validConfigs, input,
                 step, result, loop, ex, obs, sobs, call, io, req>>

(* line 23 *)
NoToken(token) == Falsy(token)

(* lines 22-31: without a token the auth manager is not asked *)
ValidateToken ==
  /\ pc = "auth_validateToken"
  /\ IF NoToken(http.token)
     THEN /\ http' = [http EXCEPT !.authResult =
                         Some([success |-> FALSE, message |-> "No token provided",
                               orgId |-> None])]
          /\ pc' = "auth_result"
     ELSE /\ http' = [http EXCEPT !.authenticateCalls = Append(@, http.token)]
          /\ pc' = "auth_authenticate"
  /\ UNCHANGED <<mode, payload, credentials, options, integration, validConfigs, input,
                 step, result, loop, ex, obs, sobs, call, io, req>>

(* lines 31-36: the auth manager accepts the token for an organisation,    *)
(* rejects it, or fails                                                    *)
Authenticate ==
  /\ pc = "auth_authenticate"
  /\ \/ \E orgId \in OrgIds :
          /\ http' = [http EXCEPT !.accepted = @ \cup {http.token},
                                  !.authResult = Some([success |-> TRUE, message |-> "",
                                                       orgId |-> Some(orgId)])]
          /\ pc' = "auth_result"
     \/ /\ http' = [http EXCEPT !.authResult =
                       Some([success |-> FALSE, message |-> "Invalid token",
                             orgId |-> None])]
        /\ pc' = "auth_result"
     \/ \E error \in AuthErrors :
          /\ http' = [http EXCEPT !.thrown = error]
          /\ pc' = "auth_threw"
  /\ UNCHANGED <<mode, payload, credentials, options, integration, validConfigs, input,
                 step, result, loop, ex, obs, sobs, call, io, req>>

AuthFailedNever(authResult) == FALSE

(* line 52 *)
AuthFailed(authResult) == ~authResult.success

(* lines 51-61: 401 for a failed authentication; otherwise the organisation *)
(* is attached to the request and next() is called                          *)
AuthResult ==
  /\ pc = "auth_result"
  /\ IF AuthFailed(Get(http.authResult))
     THEN http' = [http EXCEPT !.status = Some(401),
                               !.body = Some(getAuthErrorHTML(http.token))]
     ELSE http' = [http EXCEPT !.orgId = Get(http.authResult).orgId,
                               !.authInfo = Some([token |-> http.token,
                                                  clientId |-> Get(http.authResult).orgId]),
                               !.nextCalls = @ + 1]
  /\ pc' = "auth_done"
  /\ UNCHANGED <<mode, payload, credentials, options, integration, validConfigs, input,
                 step, result, loop, ex, obs, sobs, call, io, req>>

(* ---------------- the system ---------------- *)
IdleLoop == [loopItems |-> <<>>, stepResults |-> <<>>, successfulConfig |-> None, i |-> 0]

IdleSobs ==
  [nExec |-> 0, nSelect |-> 0, nRegen |-> 0, execItems |-> <<>>, execConfigs |-> <<>>,
   execOptions |-> <<>>, failedIter |-> 0, extracted |-> <<>>, firstEmpty |-> FALSE,
   failure |-> "none", selectors |-> <<>>, selector0 |-> None, returnedConfigs |-> <<>>]

(* a Direct step: every self-healing mode, retry budget and integration *)
InitDirect ==
  /\ step \in [executionMode : {"DIRECT"}, apiConfig : {OriginalConfig},
               loopSelector : {None}, loopMaxIters : {None},
               responseMapping : {None, Some("data.items")}]
  /\ payload \in [kind : {"array", "object"}, items : {<<>>}]
  /\ options \in [selfHealing : {None} \cup {Some(m) : m \in SelfHealingModes},
                  retries : {Some(r) : r \in 1..MaxRetries},
                  testMode : BOOLEAN]
  /\ integration \in {None} \cup {Some(i) : i \in Integrations}
  /\ validConfigs \in {{}, {OriginalConfig}}

(* a Loop step: every payload, selector and cap; the executor heals at *)
(* most once per iteration                                             *)
LoopRetryBudgets == {1, 2}
LoopSelfHealingModes == {None, Some("DISABLED")}

InitLoop ==
  /\ step \in [executionMode : {"LOOP"}, apiConfig : {OriginalConfig},
               loopSelector : {None, Some("items"), Some("$$bad")},
               loopMaxIters : {None} \cup {Some(n) : n \in 1..MaxIters},
               responseMapping : {None, Some("data.items")}]
  /\ payload \in Payloads
  /\ options \in [selfHealing : LoopSelfHealingModes,
                  retries : {Some(r) : r \in LoopRetryBudgets},
                  testMode : BOOLEAN]
  /\ integration \in {None, Some([documentationPending |-> FALSE, documentation |-> "docs"])}
  /\ validConfigs = {}

Init ==
  /\ (InitDirect \/ InitLoop)
  /\ mode = step.executionMode
  /\ credentials \in CredentialSets
  /\ pc = "start"
  /\ result = InitialResult(step)
  /\ loop = IdleLoop
  /\ ex = IdleExec
  /\ obs = IdleObs
  /\ sobs = [IdleSobs EXCEPT !.selector0 = step.loopSelector]
  /\ input = [id |-> None, endpoint |-> step.apiConfig]
  /\ call = IdleCall
  /\ io = IdleIo
  /\ req = IdleReq
  /\ http = IdleHttp

Next ==
  \/ DirectStart
  \/ DirectAfterCall
  \/ DirectApplyJsonata
  \/ LoopStart
  \/ LoopSelect
  \/ LoopGenerateTransformCode
  \/ LoopRetry
  \/ LoopAfterCall
  \/ LoopApplyJsonata
  \/ GenerateApiConfig
  \/ CallEndpoint
  \/ EvaluateResponse

Spec == Init /\ [][Next]_vars

(* every awaited call settles: the continuation of a settled promise is    *)
(* run by the event loop, so a step that can be taken is taken             *)
SpecLive == Init /\ [][Next]_vars /\ WF_vars(Next)

(* a Direct step with every retry budget from 0 on *)
InitBudget ==
  /\ mode = "DIRECT"
  /\ step = [executionMode |-> "DIRECT", apiConfig |-> OriginalConfig,
             loopSelector |-> None, loopMaxIters |-> None, responseMapping |-> None]
  /\ payload = [kind |-> "object", items |-> <<>>]
  /\ credentials \in CredentialSets
  /\ options \in [selfHealing : {None} \cup {Some(m) : m \in SelfHealingModes},
                  retries : {Some(r) : r \in 0..MaxRetries},
                  testMode : {FALSE}]
  /\ integration \in {None} \cup {Some(i) : i \in Integrations}
  /\ validConfigs \in {{}, {OriginalConfig}}
  /\ input = [id |-> None, endpoint |-> step.apiConfig]
  /\ pc = "start"
  /\ result = InitialResult(step)
  /\ loop = IdleLoop
  /\ ex = IdleExec
  /\ obs = IdleObs
  /\ sobs = IdleSobs
  /\ call = IdleCall
  /\ io = IdleIo
  /\ req = IdleReq
  /\ http = IdleHttp

NextBudget ==
  \/ DirectStart
  \/ DirectAfterCall
  \/ DirectApplyJsonata
  \/ GenerateApiConfig
  \/ CallEndpoint
  \/ EvaluateResponse

SpecBudget == InitBudget /\ [][NextBudget]_vars

(* one call of callResolver: an inline config or an identifier, every      *)
(* cache mode, with and without webhook                                    *)
CallRetryBudgets == {1, 2}
CallSelfHealingModes == {None, Some("DISABLED")}
Inputs == {[id |-> None, endpoint |-> OriginalConfig], [id |-> None, endpoint |-> ZodConfig],
           [id |-> Some("stored"), endpoint |-> OriginalConfig],
           [id |-> Some("missing"), endpoint |-> OriginalConfig]}

InitCall ==
  /\ mode = "CALL"
  /\ input \in Inputs
  /\ payload = [kind |-> "object", items |-> <<>>]
  /\ credentials \in CredentialSets
  /\ options \in [selfHealing : CallSelfHealingModes,
                  retries : {Some(r) : r \in CallRetryBudgets},
                  testMode : {FALSE},
                  cacheMode : {None} \cup {Some(m) : m \in CacheModes},
                  webhookUrl : {None, Some("https://hook")}]
  /\ integration = None
  /\ validConfigs = {}
  /\ step = [executionMode |-> "DIRECT", apiConfig |-> input.endpoint,
             loopSelector |-> None, loopMaxIters |-> None, responseMapping |-> None]
  /\ pc = "start"
  /\ result = InitialResult(step)
  /\ loop = IdleLoop
  /\ ex = IdleExec
  /\ obs = IdleObs
  /\ sobs = IdleSobs
  /\ call = IdleCall
  /\ io = IdleIo
  /\ req = IdleReq
  /\ http = IdleHttp

NextCall ==
  \/ CallStart
  \/ CallGetApiConfig
  \/ CallAfterCall
  \/ CallExecuteTransform
  \/ CallNotifyWebhook
  \/ GenerateApiConfig
  \/ CallEndpoint
  \/ EvaluateResponse

SpecCall == InitCall /\ [][NextCall]_vars

(* one request through authMiddleware *)
InitAuth ==
  /\ mode = "AUTH"
  /\ req \in [path : Paths, authorization : AuthorizationHeaders, queryToken : QueryTokens]
  /\ http = IdleHttp
  /\ payload = [kind |-> "object", items |-> <<>>]
  /\ credentials \in CredentialSets
  /\ options = [selfHealing |-> None, retries |-> Some(1), testMode |-> FALSE]
  /\ integration = None
  /\ validConfigs = {}
  /\ step = [executionMode |-> "DIRECT", apiConfig |-> OriginalConfig,
             loopSelector |-> None, loopMaxIters |-> None, responseMapping |-> None]
  /\ input = [id |-> None, endpoint |-> step.apiConfig]
  /\ pc = "start"
  /\ result = InitialResult(step)
  /\ loop = IdleLoop
  /\ ex = IdleExec
  /\ obs = IdleObs
  /\ sobs = IdleSobs
  /\ call = IdleCall
  /\ io = IdleIo

NextAuth ==
  \/ AuthMiddleware
  \/ ValidateToken
  \/ Authenticate
  \/ AuthResult

SpecAuth == InitAuth /\ [][NextAuth]_vars

(* ======================= properties ======================= *)
Done == pc = "done"
InExecutor == IsSome(ex.options)
Budget == Retries(Get(ex.options))
CapOf(s) == IF s.loopMaxIters = None THEN DEFAULT_LOOP_MAX_ITERS ELSE Get(s.loopMaxIters)
Prefix(items, n) == [k \in 1..n |-> CurrentItem(items[k])]

(* C1: with a retry budget R >= 1, one invocation of executeApiCall makes  *)
(* at most R transport calls and at most R-1 synthesizer calls, and the    *)
(* attempt counter never exceeds R, whatever the collaborators do.         *)
Thm_C1 ==
  (InExecutor /\ Budget >= 1) =>
     /\ obs.nTransport <= Budget
     /\ obs.nSynth <= Budget - 1
     /\ ex.retryCount <= Budget
     /\ obs.maxAttempt <= Budget

Wit_C1 ==
  /\ InExecutor /\ ex.pc = "threw" /\ Budget = 3
  /\ ex.retryCount = 3 /\ obs.nTransport = 3 /\ obs.nSynth = 2

(* C2: the synthesizer is never invoked during attempt 0 and only when     *)
(* self-healing is enabled; attempt 0 hands the caller's config verbatim   *)
(* to the transport caller.                                                *)
Thm_C2 ==
  /\ 0 \notin obs.synthAttempts
  /\ (obs.nSynth > 0 => isSelfHealingEnabled(options))
  /\ (IsSome(obs.call0Config) => obs.call0Config = obs.argConfig)

Wit_C2 ==
  /\ 1 \in obs.synthAttempts
  /\ IsSome(obs.call0Config)
  /\ options.selfHealing = Some("ENABLED")

(* C3: a call that succeeds at attempt k >= 1 with self-healing enabled    *)
(* returns the config the synthesizer produced at attempt k, which is the  *)
(* one handed to the successful transport call; a call that succeeds at    *)
(* attempt 0 returns the input config.                                     *)
Thm_C3 ==
  ex.pc = "returned" =>
     IF ex.retryCount >= 1 /\ isSelfHealingEnabled(options)
     THEN /\ IsSome(obs.lastSynth)
          /\ Get(obs.lastSynth).attempt = ex.retryCount
          /\ Get(obs.lastSynth).config = ex.endpoint
          /\ obs.lastCallConfig = Some(ex.endpoint)
     ELSE ex.retryCount = 0 => Some(ex.endpoint) = obs.argConfig

Wit_C3 ==
  /\ ex.pc = "returned" /\ ex.retryCount = 2 /\ obs.nSynth = 2
  /\ Some(ex.endpoint) # obs.argConfig

(* C4: a Direct step whose config is valid (and whose response mapping is  *)
(* absent) makes exactly one transport call and returns success=true with  *)
(* the config passed to the transport caller, for every self-healing mode  *)
(* and with or without an integration.                                     *)
Cex_C4 ==
  (mode = "DIRECT" /\ Done /\ step.apiConfig \in validConfigs /\ step.responseMapping = None) =>
     /\ obs.nTransport = 1
     /\ result.success
     /\ Some(result.config) = obs.lastCallConfig

(* C5: no strategy lets an exception escape; every failure of the          *)
(* executor, of selector resolution or regeneration, or of the response    *)
(* mapping ends in a result with success=false and a non-empty error.      *)
Thm_C5 ==
  /\ ~result.propagated
  /\ (Done /\ sobs.failure # "none") =>
        /\ ~result.success
        /\ IsSome(result.error)
        /\ Len(Get(result.error)) > 0

Wit_C5 == Done /\ mode = "LOOP" /\ sobs.failure = "regeneration" /\ ~result.success

(* C6: a result with success=true carries rawData and transformedData and  *)
(* an absent or empty error, a Loop step of zero iterations included.      *)
Thm_C6 ==
  (Done /\ result.success) =>
     /\ IsSome(result.rawData)
     /\ IsSome(result.transformedData)
     /\ (result.error = None \/ result.error = Some(<<>>))

Wit_C6 == Done /\ mode = "LOOP" /\ result.success /\ sobs.nExec = 0 /\ sobs.nSelect > 0

(* C7: a Loop step whose iteration i fails invokes the executor for no     *)
(* later item and returns success=false without rawData and                *)
(* transformedData: the results of iterations 1..i-1 are discarded.        *)
Thm_C7 ==
  (mode = "LOOP" /\ sobs.failedIter >= 1) =>
     /\ Done
     /\ sobs.nExec = sobs.failedIter
     /\ ~result.success
     /\ result.rawData = None
     /\ result.transformedData = None

Wit_C7 == Done /\ sobs.failedIter = 2 /\ Len(loop.stepResults) = 1 /\ Len(loop.loopItems) = 3

(* C8: the selector is regenerated at most once and evaluated at most      *)
(* twice; when the second evaluation also yields no item the step makes no *)
(* executor call and returns success=true.                                 *)
Thm_C8 ==
  /\ sobs.nRegen <= 1
  /\ sobs.nSelect <= 2
  /\ (sobs.nSelect = 2 => sobs.firstEmpty /\ sobs.nRegen = 1)
  /\ (Done /\ sobs.nSelect = 2 /\ Len(sobs.extracted) = 0) =>
        /\ sobs.nExec = 0
        /\ result.success

Wit_C8 == Done /\ sobs.nSelect = 2 /\ Len(sobs.extracted) = 0 /\ Len(payload.items) > 0

(* C9: a Loop step whose iterations all succeed invokes the executor       *)
(* min(number of extracted items, cap) times, for the first items in       *)
(* extraction order; the cap is loopMaxIters, or the default when unset.   *)
Thm_C9 ==
  /\ (mode = "LOOP" => sobs.nExec <= Min(Len(sobs.extracted), CapOf(step)))
  /\ (mode = "LOOP" /\ Done /\ result.success) =>
        /\ sobs.nExec = Min(Len(sobs.extracted), CapOf(step))
        /\ sobs.execItems = Prefix(sobs.extracted, sobs.nExec)

Wit_C9 ==
  /\ mode = "LOOP" /\ Done /\ result.success
  /\ Len(sobs.extracted) = 3 /\ sobs.nExec = 2 /\ step.loopMaxIters = Some(2)

(* C10: a Loop step without selector iterates over the elements of a       *)
(* sequence payload with the identity selector; with any other payload it  *)
(* fails at once, evaluating and regenerating no selector and invoking no  *)
(* executor.                                                               *)
Thm_C10 ==
  (mode = "LOOP" /\ sobs.selector0 = None /\ pc # "start") =>
     IF IsArrayPayload(payload)
     THEN /\ (sobs.selectors # <<>> => sobs.selectors[1] = "$")
          /\ (Done /\ result.success) =>
                /\ sobs.nExec = Min(Len(payload.items), CapOf(step))
                /\ sobs.execItems = Prefix(payload.items, sobs.nExec)
     ELSE /\ Done
          /\ ~result.success
          /\ sobs.nSelect = 0 /\ sobs.nRegen = 0 /\ sobs.nExec = 0

Wit_C10 ==
  /\ mode = "LOOP" /\ Done /\ result.success /\ sobs.selector0 = None
  /\ Len(payload.items) = 2 /\ sobs.nExec = 2 /\ sobs.selectors = <<"$">>

(* C11: when every iteration of a Loop step over n items succeeds, the     *)
(* result has success=true and rawData and transformedData are sequences   *)
(* of length n, in the order of the extracted items, whose k-th element is *)
(* the data of iteration k; the k-th raw element carries the k-th item     *)
(* under the key currentItem.                                              *)
Cex_C11 ==
  (mode = "LOOP" /\ Done /\ sobs.failure = "none") =>
     /\ result.success
     /\ Len(Get(result.rawData)) = Len(loop.loopItems)
     /\ Len(Get(result.transformedData)) = Len(loop.loopItems)
     /\ \A k \in 1..Len(loop.loopItems) :
           /\ Get(result.rawData)[k] = loop.stepResults[k].rawData
           /\ Get(result.transformedData)[k] = loop.stepResults[k].transformedData
           /\ Get(result.rawData)[k].currentItem = loop.loopItems[k]

(* C12: when a Loop step aborts on iteration i of n, n counted after the   *)
(* truncation to the cap, the error text names the failure as "i/n" with i *)
(* counted from 1, and the rendering of the failing item it includes is at *)
(* most 50 characters long.                                                *)
ItemRendering(e) ==
  LET close == CHOOSE k \in 6..Len(e) :
                  e[k] = "...': " /\ \A j \in 6..(k - 1) : e[j] # "...': "
  IN SubSeq(e, 6, close - 1)

Thm_C12 ==
  (mode = "LOOP" /\ Done /\ sobs.failedIter >= 1) =>
     LET e == Get(result.error)
         n == Min(Len(sobs.extracted), CapOf(step))
         item == CurrentItem(sobs.extracted[sobs.failedIter])
     IN /\ sobs.failedIter \in 1..n
        /\ SubSeq(e, 1, 5) = <<"Error processing item ", ToString(sobs.failedIter),
                               "/", ToString(n), " '">>
        /\ Len(ItemRendering(e)) <= ItemSliceLen
        /\ ItemRendering(e) = SubSeq(JsonStringify(item), 1, Len(ItemRendering(e)))

Wit_C12 ==
  /\ mode = "LOOP" /\ Done /\ sobs.failedIter = 3 /\ Len(sobs.extracted) = 3
  /\ Len(JsonStringify(sobs.extracted[3])) > ItemSliceLen
  /\ Len(ItemRendering(Get(result.error))) = ItemSliceLen

(* C13: when the retry loop of executeApiCall ends without a successful    *)
(* attempt, the error thrown contains the configured retry count and the   *)
(* last error with its credentials masked, and no credential value, for    *)
(* every budget and every error of a collaborator.                         *)
HasCredential(text) ==
  \E k \in 1..Len(text) : \E key \in DOMAIN credentials : text[k] = credentials[key]

Exhausted == InExecutor /\ ex.pc = "threw" /\ ex.retryCount >= 1

Returned == mode = "CALL" /\ pc = "call_returned"
WebhookFailed == \E k \in 1..Len(io.webhooks) : ~io.webhooks[k].delivered

Thm_C14 ==
  mode = "CALL" =>
     /\ pc \in {"start", "call_getApiConfig", "call_executeApiCall",
                "call_executeTransform", "call_notifyWebhook", "call_returned"}
     /\ (call.failure # "none" => pc \in {"call_notifyWebhook", "call_returned"})
     /\ (Returned => IsSome(call.returned))
     /\ (Returned /\ call.failure # "none") =>
           LET r == Get(call.returned) IN
           /\ ~r.success
           /\ IsSome(r.error)
           /\ Len(Get(r.error)) = Len(call.error)
           /\ ~HasCredential(Get(r.error))
     /\ (Returned /\ call.failure = "none") => Get(call.returned).success

Wit_C14 ==
  /\ Returned /\ call.failure = "transform" /\ HasCredential(call.error)
  /\ WebhookFailed /\ ~Get(call.returned).success

(* C14 as stated: a failed webhook delivery, too, ends in a result with    *)
(* success=false.                                                          *)
Cex_C14 ==
  (Returned /\ (call.failure # "none" \/ WebhookFailed)) =>
     /\ ~Get(call.returned).success
     /\ IsSome(Get(call.returned).error)
     /\ ~HasCredential(Get(Get(call.returned).error))

(* C15: every call of callResolver asks the store to persist exactly one   *)
(* run record, whatever the outcome; the success flag of the record is the *)
(* one of the returned result, and the error of a failed run is the masked *)
(* error.                                                                  *)
Thm_C15 ==
  mode = "CALL" =>
     /\ (~Returned => Len(io.runs) = 0)
     /\ Returned =>
           LET r == Get(call.returned) IN
           /\ Len(io.runs) = 1
           /\ io.runs[1].success = r.success
           /\ io.runs[1].config = r.config
           /\ (~r.success =>
                 /\ io.runs[1].error = Some(maskCredentials(call.error, credentials))
                 /\ ~HasCredential(Get(io.runs[1].error)))

Wit_C15 ==
  /\ Returned /\ ~Get(call.returned).success /\ WebhookFailed
  /\ call.failure = "executor" /\ Len(io.runs) = 1

(* C16: within one Direct or Loop execution at most one collaborator call  *)
(* is in flight: the executor of iteration i+1 starts only when the        *)
(* executor call and the response mapping of iteration i are completed,    *)
(* and the items are processed in extraction order.                        *)
StrategyPending ==
  pc \in {"loop_select", "loop_generateTransformCode", "loop_retry",
         "loop_applyJsonata", "direct_applyJsonata"}
ExecutorPending == ex.pc \in {"generateApiConfig", "callEndpoint", "evaluateResponse"}
InFlight == (IF StrategyPending THEN 1 ELSE 0) + (IF ExecutorPending THEN 1 ELSE 0)

Thm_C16 ==
  mode \in {"DIRECT", "LOOP"} =>
     /\ InFlight <= 1
     /\ (ExecutorPending => pc \in {"direct_executeApiCall", "loop_executeApiCall"})
     /\ mode = "LOOP" =>
           /\ sobs.execItems = Prefix(sobs.extracted, sobs.nExec)
           /\ (pc \in {"loop_executeApiCall", "loop_applyJsonata"} =>
                 /\ sobs.nExec = Len(loop.stepResults) + 1
                 /\ loop.i = Len(loop.stepResults))
           /\ (pc = "loop_applyJsonata" => ex.pc = "returned")
           /\ (pc = "done" => sobs.nExec <= Len(loop.stepResults) + 1)

Wit_C16 ==
  /\ mode = "LOOP" /\ pc = "loop_executeApiCall" /\ ex.pc = "evaluateResponse"
  /\ sobs.nExec = 3 /\ Len(loop.stepResults) = 2

(* C17: in a Loop step the config of record is the config returned by the  *)
(* most recent successful call: every later iteration invokes the executor *)
(* with the config of record, and the config of record changes again only  *)
(* when a later call heals and returns another config.                     *)
Thm_C17 ==
  mode = "LOOP" =>
     /\ (sobs.returnedConfigs = <<>> => loop.successfulConfig = None)
     /\ (sobs.returnedConfigs # <<>> =>
           loop.successfulConfig = Some(sobs.returnedConfigs[Len(sobs.returnedConfigs)]))
     /\ (pc = "loop_executeApiCall" /\ IsSome(loop.successfulConfig) =>
           obs.argConfig = loop.successfulConfig)
     /\ (pc = "loop_applyJsonata" /\ obs.nSynth = 0 =>
           loop.successfulConfig = Some(sobs.execConfigs[sobs.nExec]))

Wit_C17 ==
  /\ mode = "LOOP" /\ pc = "loop_executeApiCall" /\ sobs.nExec = 3
  /\ sobs.returnedConfigs = <<OriginalConfig, generateApiConfig(OriginalConfig)>>
  /\ loop.successfulConfig = Some(generateApiConfig(OriginalConfig))

(* C17 as stated: once an iteration has succeeded the config of record     *)
(* does not change again.                                                  *)
Cex_C17 ==
  [][(mode = "LOOP" /\ IsSome(loop.successfulConfig))
        => loop.successfulConfig' = loop.successfulConfig]_vars

(* C18: in a Loop step the executor of iteration 1 is invoked with the     *)
(* original config of the step and the executor of iteration i+1 with the  *)
(* config the executor returned in iteration i; when every iteration       *)
(* succeeds, the config of the result and the config of the step are the   *)
(* config returned by the last iteration.                                  *)
Thm_C18 ==
  mode = "LOOP" =>
     /\ (sobs.nExec >= 1 => sobs.execConfigs[1] = OriginalConfig)
     /\ \A k \in 2..sobs.nExec :
           /\ Len(sobs.returnedConfigs) >= k - 1
           /\ sobs.execConfigs[k] = sobs.returnedConfigs[k - 1]
     /\ (Done /\ result.success /\ sobs.nExec >= 1) =>
           /\ Len(sobs.returnedConfigs) = sobs.nExec
           /\ result.config = sobs.returnedConfigs[sobs.nExec]
           /\ step.apiConfig = sobs.returnedConfigs[sobs.nExec]

Wit_C18 ==
  /\ mode = "LOOP" /\ Done /\ result.success /\ sobs.nExec = 3
  /\ sobs.returnedConfigs[2] # sobs.returnedConfigs[1]
  /\ sobs.returnedConfigs[3] # sobs.returnedConfigs[2]
  /\ result.config = sobs.returnedConfigs[3]

(* C19: every error text the executor appends to the transcript, and so    *)
(* hands to the synthesizer at the next attempt, has its credentials       *)
(* masked: no message holds a credential value.                            *)
Cex_C19 ==
  InExecutor =>
     \A k \in 1..Len(ex.messages) :
        ex.messages[k].role = "user" => ~HasCredential(ex.messages[k].content)

(* C20: after a failed attempt k >= 1 a user message that describes the    *)
(* error of attempt k is in the transcript when the synthesizer is invoked *)
(* at attempt k+1, followed by nothing but the guide; a failure of attempt *)
(* 0 appends nothing, so the transcript handed to the synthesizer at       *)
(* attempt 1 is empty.                                                     *)
ErrorMessage(rawErrorString) ==
  [role |-> "user",
   content |-> <<"There was an error with the configuration, please fix: ">>
               \o Slice(rawErrorString, MessageSliceLen)]

Describes(messages, j) ==
  /\ messages[j] = ErrorMessage(ex.rawErrorString)
  /\ \A i \in (j + 1)..Len(messages) :
        messages[i].content = <<"Please find the JSONata guide here: ", PROMPT_MAPPING>>

Thm_C20 ==
  ex.pc = "generateApiConfig" =>
     /\ ex.retryCount >= 1
     /\ IF ex.retryCount = 1
        THEN ex.messages = <<>>
        ELSE \E j \in 1..Len(ex.messages) : Describes(ex.messages, j)

Wit_C20 ==
  /\ ex.pc = "generateApiConfig" /\ ex.retryCount = 2
  /\ Len(ex.messages) = 3
  /\ Head(ex.rawErrorString) = "JSONata"

(* C20 as stated: the failure of attempt 0 is described too, and the       *)
(* transcript handed to the synthesizer at attempt 1 has length 1.         *)
Cex_C20 ==
  ex.pc = "generateApiConfig" =>
     /\ \E j \in 1..Len(ex.messages) : Describes(ex.messages, j)
     /\ (ex.retryCount = 1 => Len(ex.messages) = 1)

(* C21: the validator is called only at an attempt > 0 with self-healing   *)
(* enabled; at attempt 0, and at every attempt when self-healing is        *)
(* disabled, an attempt succeeds as soon as the transport call returns a   *)
(* body.                                                                   *)
Thm_C21 ==
  InExecutor =>
     /\ 0 \notin obs.validateAttempts
     /\ (obs.nValidate > 0 => isSelfHealingEnabled(Get(ex.options)))
     /\ (ex.pc = "evaluateResponse" =>
           ex.retryCount > 0 /\ isSelfHealingEnabled(Get(ex.options)))
     /\ (ex.pc = "returned" /\ (ex.retryCount = 0 \/ ~isSelfHealingEnabled(Get(ex.options)))) =>
           /\ ex.retryCount \notin obs.validateAttempts
           /\ IsSome(ex.response)
           /\ obs.nTransport = ex.retryCount + 1
     /\ (ex.pc = "returned" /\ ex.retryCount > 0 /\ isSelfHealingEnabled(Get(ex.options))) =>
           ex.retryCount \in obs.validateAttempts

Wit_C21 ==
  /\ InExecutor /\ ex.pc = "returned" /\ ex.retryCount = 1
  /\ ~isSelfHealingEnabled(Get(ex.options)) /\ obs.nValidate = 0 /\ obs.nTransport = 2

(* C22: executeApiCall never returns from an attempt whose response had no *)
(* body, nor from an attempt whose response the validator rejected: such   *)
(* an attempt is counted as failed and records its error as the last       *)
(* error, and the loop goes on to the next attempt or to exhaustion.       *)
FailedAttempts == obs.emptyAttempts \cup obs.rejectedAttempts

Thm_C22 ==
  InExecutor =>
     /\ (ex.pc = "returned" => ex.retryCount \notin FailedAttempts /\ IsSome(ex.response))
     /\ \A a \in FailedAttempts :
           /\ ex.retryCount > a
           /\ IsSome(ex.lastError)
           /\ (a \in obs.rejectedAttempts => a > 0 /\ isSelfHealingEnabled(Get(ex.options)))
     /\ (ex.retryCount - 1 \in obs.emptyAttempts =>
           Get(ex.lastError) =
              <<"No data returned from API. This could be due to a configuration error.">>)
     /\ (ex.retryCount - 1 \in obs.rejectedAttempts =>
           Head(Get(ex.lastError)) \in {Head(r) : r \in ValidatorReasons})
     /\ (ex.retryCount - 1 \in FailedAttempts =>
           IF ex.retryCount < Budget
           THEN ex.pc \in {"generateApiConfig", "callEndpoint", "evaluateResponse", "returned"}
           ELSE ex.pc = "threw")

Wit_C22 ==
  /\ InExecutor /\ ex.pc = "returned" /\ ex.retryCount = 2
  /\ obs.emptyAttempts = {0} /\ obs.rejectedAttempts = {1}

(* C23: self-healing is enabled exactly when the option selfHealing is     *)
(* unset, ENABLED or REQUEST_ONLY; with DISABLED no attempt of             *)
(* executeApiCall calls the synthesizer or the validator.                  *)
Thm_C23 ==
  InExecutor =>
     LET selfHealing == Get(ex.options).selfHealing IN
     /\ ex.isSelfHealing <=>
           selfHealing \in {None, Some("ENABLED"), Some("REQUEST_ONLY")}
     /\ (selfHealing = Some("DISABLED") =>
           /\ obs.nSynth = 0 /\ obs.nValidate = 0
           /\ ex.pc \notin {"generateApiConfig", "evaluateResponse"})
     /\ (ex.isSelfHealing /\ ex.retryCount >= 1
            /\ ex.pc \in {"callEndpoint", "evaluateResponse", "returned"} =>
           ex.retryCount \in obs.synthAttempts)

Wit_C23 ==
  /\ InExecutor /\ Get(ex.options).selfHealing = Some("DISABLED")
  /\ ex.pc = "threw" /\ ex.retryCount = 3 /\ obs.nTransport = 3 /\ obs.nSynth = 0

(* C24: executeApiCall makes an attempt only while the attempt counter is  *)
(* below the retry budget: for every budget, a budget of 0 included, the   *)
(* number of transport calls never exceeds the budget.                     *)
Cex_C24 == InExecutor => obs.nTransport <= Budget

(* C25: within one executeApiCall the JSONata guide is appended to the     *)
(* transcript at most once, and only right after the message of a failure  *)
(* whose error comes from the JSONata evaluator; a later error of the      *)
(* evaluator does not append it again.                                     *)
IsGuide(message) ==
  message.role = "user" /\ Head(message.content) = "Please find the JSONata guide here: "
IsEvaluatorError(message) ==
  /\ message.role = "user"
  /\ Len(message.content) >= 2
  /\ message.content[1] = "There was an error with the configuration, please fix: "
  /\ message.content[2] = "JSONata"

Thm_C25 ==
  InExecutor =>
     /\ Cardinality({k \in 1..Len(ex.messages) : IsGuide(ex.messages[k])}) <= 1
     /\ \A k \in 1..Len(ex.messages) :
           IsGuide(ex.messages[k]) => k > 1 /\ IsEvaluatorError(ex.messages[k - 1])
     /\ (\E k \in 1..Len(ex.messages) : IsEvaluatorError(ex.messages[k])) =>
           \E k \in 1..Len(ex.messages) : IsGuide(ex.messages[k])

Wit_C25 ==
  /\ InExecutor
  /\ Cardinality({k \in 1..Len(ex.messages) : IsEvaluatorError(ex.messages[k])}) = 2
  /\ Cardinality({k \in 1..Len(ex.messages) : IsGuide(ex.messages[k])}) = 1

(* C26: the transcript of one executeApiCall only grows: the executor      *)
(* removes and reorders nothing, the transcript handed to the synthesizer  *)
(* is the one the synthesizer returned last, extended only by the messages *)
(* appended after failures, and every call starts with an empty            *)
(* transcript.                                                             *)
IsPrefix(s, t) == Len(s) <= Len(t) /\ SubSeq(t, 1, Len(s)) = s
CallStarts == obs.nTransport' = 0 /\ obs.nSynth' = 0 /\ ex'.retryCount = 0

Thm_C26 ==
  /\ [](ex.pc = "generateApiConfig" =>
          LET returned == IF IsSome(obs.synthReturned) THEN Get(obs.synthReturned) ELSE <<>>
          IN /\ IsPrefix(returned, ex.messages)
             /\ \A k \in (Len(returned) + 1)..Len(ex.messages) :
                   \/ IsGuide(ex.messages[k])
                   \/ /\ ex.messages[k].role = "user"
                      /\ Head(ex.messages[k].content) =
                           "There was an error with the configuration, please fix: "
             /\ (ex.retryCount = 1 => ex.messages = <<>>))
  /\ [][IF CallStarts THEN ex'.messages = <<>> ELSE IsPrefix(ex.messages, ex'.messages)]_vars

Wit_C26 ==
  /\ ex.pc = "generateApiConfig" /\ ex.retryCount = 2 /\ IsSome(obs.synthReturned)
  /\ Len(ex.messages) = Len(Get(obs.synthReturned)) + 2

(* C27: every executor invocation of the Loop strategy gets options with   *)
(* testMode=false, whatever testMode the caller passed, and every other    *)
(* option as the caller passed it; the Direct strategy passes the caller's *)
(* options unchanged.                                                      *)
Thm_C27 ==
  /\ (mode = "LOOP" =>
        /\ Len(sobs.execOptions) = sobs.nExec
        /\ \A k \in 1..Len(sobs.execOptions) :
              /\ sobs.execOptions[k].testMode = FALSE
              /\ DOMAIN sobs.execOptions[k] = DOMAIN options
              /\ \A f \in DOMAIN options \ {"testMode"} :
                    sobs.execOptions[k][f] = options[f]
        /\ (InExecutor => ex.options = Some(sobs.execOptions[sobs.nExec])))
  /\ (mode = "DIRECT" /\ InExecutor => ex.options = Some(options))

Wit_C27 ==
  /\ mode = "LOOP" /\ options.testMode /\ sobs.nExec = 2
  /\ Get(ex.options).testMode = FALSE /\ Get(ex.options).retries = options.retries

(* C28: when the extraction of loop items yields no item, also after the   *)
(* one regeneration of the selector, the Loop step makes no executor call; *)
(* it completes with zero iterations and success=true when the             *)
(* regeneration returned a mapping or nothing, and with success=false when *)
(* the regeneration itself failed.                                         *)
NoItems == mode = "LOOP" /\ Done /\ sobs.firstEmpty /\ Len(loop.loopItems) = 0

Thm_C28 ==
  NoItems =>
     /\ sobs.nExec = 0
     /\ sobs.nRegen = 1
     /\ sobs.failure \in {"none", "regeneration"}
     /\ (sobs.failure = "none" =>
           /\ result.success
           /\ result.rawData = Some(<<>>)
           /\ result.transformedData = Some(<<>>))
     /\ (sobs.failure = "regeneration" =>
           /\ ~result.success
           /\ sobs.nSelect = 1
           /\ Get(result.error) \in RegenErrors)

Wit_C28 ==
  /\ NoItems /\ sobs.nSelect = 1 /\ sobs.failure = "none" /\ result.success
  /\ Len(payload.items) > 0

(* C28 as stated: the step completes with success=true whatever the        *)
(* regeneration does, its failure included.                                *)
Cex_C28 == NoItems => (sobs.nExec = 0 /\ result.success)

(* C29: the Direct strategy leaves the step unchanged; the Loop strategy   *)
(* changes its config, to the config the executor returned after a         *)
(* successful iteration, and its loop selector, to the identity selector   *)
(* when it is absent and to the mapping the regeneration returned; it      *)
(* changes no other field.                                                 *)
Thm_C29 ==
  [][/\ (mode = "DIRECT" => step' = step)
     /\ step'.executionMode = step.executionMode
     /\ step'.loopMaxIters = step.loopMaxIters
     /\ step'.responseMapping = step.responseMapping
     /\ (step'.apiConfig # step.apiConfig =>
           /\ pc = "loop_applyJsonata" /\ ex.pc = "returned"
           /\ step'.apiConfig = ex.endpoint
           /\ step'.loopSelector = step.loopSelector)
     /\ (step'.loopSelector # step.loopSelector =>
           \/ pc = "start" /\ step.loopSelector = None /\ step'.loopSelector = Some("$")
           \/ /\ pc = "loop_generateTransformCode"
              /\ Get(step'.loopSelector) \in GeneratedSelectors)]_vars

Wit_C29 ==
  /\ mode = "LOOP" /\ Done /\ result.success
  /\ sobs.selector0 = Some("items") /\ step.loopSelector # sobs.selector0
  /\ step.apiConfig # OriginalConfig

(* C29 as stated: the Loop strategy changes nothing of the step but its    *)
(* config.                                                                 *)
Cex_C29 ==
  [][step' # step =>
       /\ mode = "LOOP" /\ pc = "loop_applyJsonata"
       /\ step' = [step EXCEPT !.apiConfig = ex.endpoint]]_vars

(* C30: callResolver writes the config back to the store exactly when the  *)
(* executor and the post-call transform succeeded and the cache mode is    *)
(* ENABLED or WRITEONLY; it writes nothing on a failed call, nor with the  *)
(* cache mode DISABLED, READONLY or unset.                                 *)
Thm_C30 ==
  mode = "CALL" =>
     /\ Len(io.upserts) <= 1
     /\ (~Returned => io.upserts = <<>>)
     /\ Returned =>
           /\ Len(io.upserts) = 1 <=>
                 /\ Get(call.returned).success
                 /\ options.cacheMode \in {Some("ENABLED"), Some("WRITEONLY")}
           /\ (Len(io.upserts) = 1 =>
                 /\ call.failure = "none"
                 /\ Some(io.upserts[1].config) = Get(call.returned).config)

Wit_C30 ==
  /\ Returned /\ Get(call.returned).success /\ options.cacheMode = Some("WRITEONLY")
  /\ Len(io.upserts) = 1 /\ io.upserts[1].config # Get(call.endpoint)

(* C31: when the resolved config carries a zod response schema, the call   *)
(* fails before the executor is invoked: no transport, synthesizer or      *)
(* validator call and no config write-back occur, and exactly one failed   *)
(* run, with the zod error, is persisted.                                  *)
ResolvedZod == mode = "CALL" /\ IsSome(call.endpoint) /\ Get(call.endpoint) = ZodConfig

Thm_C31 ==
  ResolvedZod =>
     /\ call.failure = "schema"
     /\ call.error = ZodError
     /\ pc \in {"call_notifyWebhook", "call_returned"}
     /\ ex = IdleExec
     /\ obs.nTransport = 0 /\ obs.nSynth = 0 /\ obs.nValidate = 0
     /\ io.upserts = <<>>
     /\ Returned =>
           /\ ~Get(call.returned).success
           /\ io.runs = <<RunRecord(FALSE, Some(ZodConfig), Some(ZodError))>>

Wit_C31 ==
  /\ ResolvedZod /\ Returned /\ options.cacheMode = Some("ENABLED")
  /\ Len(io.runs) = 1 /\ ~io.runs[1].success /\ obs.nTransport = 0

(* C32: a call given an identifier for which the store holds no config     *)
(* fails without invoking the transport caller or the synthesizer.         *)
MissingConfig ==
  /\ mode = "CALL" /\ input.id = Some("missing")
  /\ IsSome(call.endpoint) /\ call.failure # "resolution"

Cex_C32 ==
  MissingConfig =>
     /\ obs.nTransport = 0
     /\ obs.nSynth = 0
     /\ (Returned => ~Get(call.returned).success)

(* C33: callResolver notifies the webhook if and only if a webhook URL is  *)
(* configured, at most once per call, with the success flag of the         *)
(* returned result; the notification carries the transformed data on       *)
(* success and the error that was thrown on failure.                       *)
Thm_C33 ==
  mode = "CALL" =>
     /\ Len(io.webhooks) <= 1
     /\ (options.webhookUrl = None => io.webhooks = <<>>)
     /\ Returned =>
           LET r == Get(call.returned) IN
           /\ Len(io.webhooks) = 1 <=> IsSome(options.webhookUrl)
           /\ Len(io.webhooks) = 1 =>
                 LET w == io.webhooks[1] IN
                 /\ w.success = r.success
                 /\ (r.success => w.data = r.data /\ IsSome(w.data) /\ w.error = None)
                 /\ (~r.success => w.data = None /\ w.error = Some(call.error)
                                   /\ call.error # <<>>)

Wit_C33 ==
  /\ Returned /\ Len(io.webhooks) = 1 /\ io.webhooks[1].success
  /\ io.webhooks[1].data = Get(call.returned).data

(* C34: the error string sent to the webhook on failure contains no raw    *)
(* credential value, whichever step of the call failed.                    *)
Cex_C34 ==
  (Returned /\ ~Get(call.returned).success) =>
     \A k \in 1..Len(io.webhooks) :
        IsSome(io.webhooks[k].error) => ~HasCredential(Get(io.webhooks[k].error))

(* C35: the error of a failed result of the Direct or Loop strategy        *)
(* contains no raw credential value, whether the executor failed or the    *)
(* evaluation of the response mapping did.                                 *)
Cex_C35 ==
  (mode \in {"DIRECT", "LOOP"} /\ Done /\ ~result.success /\ IsSome(result.error)) =>
     ~HasCredential(Get(result.error))

Disabled == InExecutor /\ Get(ex.options).selfHealing = Some("DISABLED")

Thm_C37 ==
  Disabled =>
     /\ obs.nSynth = 0 /\ obs.nValidate = 0
     /\ Some(ex.endpoint) = obs.argConfig
     /\ (obs.nTransport > 0 =>
           obs.call0Config = obs.argConfig /\ obs.lastCallConfig = obs.argConfig)
     /\ (ex.pc = "returned" =>
           /\ ex.success /\ obs.nTransport = ex.retryCount + 1
           /\ Some(ex.endpoint) = obs.argConfig)

Wit_C37 ==
  /\ Disabled /\ ex.pc = "returned" /\ ex.retryCount = 2 /\ obs.nTransport = 3
  /\ obs.lastCallConfig = obs.argConfig

(* C38: a failed Direct result carries the step's original config and no   *)
(* rawData or transformedData, also when the executor had healed the       *)
(* config before the response mapping failed.  A Loop result that aborts   *)
(* on iteration i carries the config returned by iteration i-1, the        *)
(* original config when i = 1, and the step's own config is left at that   *)
(* config.                                                                 *)
Thm_C38 ==
  /\ (mode = "DIRECT" /\ Done /\ ~result.success) =>
        /\ result.config = OriginalConfig /\ step.apiConfig = OriginalConfig
        /\ result.rawData = None /\ result.transformedData = None
  /\ (mode = "LOOP" /\ Done /\ sobs.failedIter > 0) =>
        LET i == sobs.failedIter
            last == IF i = 1 THEN OriginalConfig ELSE sobs.returnedConfigs[i - 1]
        IN /\ ~result.success
           /\ result.config = last
           /\ step.apiConfig = last
           /\ Len(loop.stepResults) = i - 1
           /\ (i > 1 => loop.stepResults[i - 1].config = last)

Wit_C38 ==
  /\ mode = "LOOP" /\ Done /\ sobs.failedIter = 3 /\ sobs.failure = "mapping"
  /\ Len(sobs.returnedConfigs) = 3
  /\ result.config = sobs.returnedConfigs[2] /\ result.config # OriginalConfig
  /\ sobs.returnedConfigs[3] # result.config
  /\ step.apiConfig = result.config

(* C39: the documentation string of executeApiCall is empty when no        *)
(* integration was supplied or its documentation is pending, and is the    *)
(* integration's documentation otherwise; with an absent or pending        *)
(* documentation the attempts proceed, that is, the call does not fail     *)
(* before its first attempt.                                               *)
NoDocumentation == integration = None \/ Get(integration).documentationPending
FailedBeforeAttempt == ex.pc = "threw" /\ ex.retryCount = 0 /\ obs.nTransport = 0

Cex_C39 ==
  (mode \in {"DIRECT", "LOOP"} /\ InExecutor) =>
     /\ ex.documentationString =
           (IF NoDocumentation THEN "" ELSE Get(integration).documentation)
     /\ (NoDocumentation => ~FailedBeforeAttempt)

(* C40: authMiddleware calls next() only for a request whose token the     *)
(* auth manager accepted, and then once and without answering itself; a    *)
(* request without token is answered 401 and the auth manager is not       *)
(* asked; a request to /health is answered 200 without authentication and  *)
(* without next().                                                         *)
Answered == mode = "AUTH" /\ pc = "auth_done"

Thm_C40 ==
  mode = "AUTH" =>
     /\ http.nextCalls <= 1 /\ Len(http.authenticateCalls) <= 1
     /\ (http.nextCalls = 1 =>
           /\ Answered /\ req.path # "/health"
           /\ http.authenticateCalls = <<http.token>>
           /\ http.token \in http.accepted
           /\ http.token = extractTokenFromExpressRequest(req)
           /\ http.status = None /\ http.orgId \in {Some(o) : o \in OrgIds})
     /\ (Answered /\ req.path # "/health"
         /\ req.authorization = None /\ req.queryToken = None) =>
           /\ http.status = Some(401) /\ http.nextCalls = 0
           /\ http.authenticateCalls = <<>>
     /\ (Answered /\ req.path # "/health" /\ Falsy(http.token)) =>
           /\ http.status = Some(401) /\ http.nextCalls = 0
           /\ http.authenticateCalls = <<>>
     /\ (req.path = "/health" /\ pc # "start") =>
           /\ Answered
           /\ http.status = Some(200) /\ http.body = Some(<<"OK">>)
           /\ http.nextCalls = 0 /\ http.authenticateCalls = <<>>
     /\ (Answered => (http.status = None <=> http.nextCalls = 1))

Wit_C40 ==
  /\ Answered /\ http.nextCalls = 1 /\ req.authorization = Some(<<"Bearer", "key2\t">>)
  /\ http.authenticateCalls = <<Some("key2")>>

====
